---- MODULE Spec2Model ----
(***************************************************************************)
(* Model of the sales dashboard (src/app.py): the load -> select ->        *)
(* filter -> group/format -> chart -> display -> export pipeline that      *)
(* DashboardApp.run executes once per script run.                          *)
(*                                                                         *)
(* Numbers.  Every metric value is an integer number of hundredths         *)
(* ("cents"): 123450 stands for 1234.50 and 500 for 5.  With two decimal   *)
(* digits the "%.2f" conversion of the source is exact, and a value is     *)
(* half-way between two integers exactly when its cents end in 50.         *)
(* A mean is kept as an exact fraction in lowest terms.                    *)
(*                                                                         *)
(* Text.  A formatted string is the sequence of its characters, so that    *)
(* the replace chain of _format_value acts on what it really acts on.      *)
(* The month column is written "Mes".                                      *)
(***************************************************************************)
EXTENDS Integers, Sequences, FiniteSets, TLC

VARIABLES
    source,             \* what lies at the path read by load_data
    pc,                 \* position of DashboardApp.run
    data,               \* run's local `data`
    selected_state,
    selected_month,
    selected_metric,
    selected_dimension,
    filtered_data,      \* run's local `filtered_data`
    grouped_data,       \* run's local `grouped_data`
    chart,              \* run's local `chart`
    ui,                 \* what the page shows, in order
    log,                \* the records appended to app.log, in order
    export,             \* "none", "ok" or "failed": the state of write_image
    escaped,            \* the exception that left run(), or "None"
    bound               \* the names of run's locals that have been assigned

vars == <<source, pc, data, selected_state, selected_month, selected_metric,
          selected_dimension, filtered_data, grouped_data, chart, ui, log,
          export, escaped, bound>>

-----------------------------------------------------------------------------
(* Bounds and input universes *)

MaxRecords == 3

MaxSmallWhole == 12

PATH == "data/vendas_brasil_2025.xlsx"

None == "None"

metrics == <<"Quantidade Vendida", "Receita Total (R$)", "Lucro (R$)", "Margem (%)">>

dimensions == <<"Produto", "Estado", "Mes">>

Range(s) == {s[i] : i \in DOMAIN s}

Rec(p, e, m, q, rt, l, mg) ==
    [c \in Range(dimensions) \cup Range(metrics) |->
        CASE c = "Produto" -> p
          [] c = "Estado" -> e
          [] c = "Mes" -> m
          [] c = "Quantidade Vendida" -> q
          [] c = "Receita Total (R$)" -> rt
          [] c = "Lucro (R$)" -> l
          [] c = "Margem (%)" -> mg]

\* Rows a sales workbook can hold; quantities are whole numbers.
SampleRecords ==
    { Rec("P1", "A", "Jan",  500,  123450,  1000,  1050),
      Rec("P2", "B", "Jan", 1000,  250000,  2000,  2575),
      Rec("P1", "A", "Feb", 1500,   99999,  -500,   -49),
      Rec("P2", "B", "Feb", 2000,  100001,  2000,  1050),
      Rec("P3", "A", "Jan",  500,   50050,  3000, 12345),
      Rec("P3", "B", "Feb", 1500,    1995,     0,     0) }

\* The end-to-end table: states A, B x months Jan, Feb, quantities 5, 10, 15, 20.
EndToEnd ==
    << Rec("P1", "A", "Jan",  500,  123450,  1000,  1050),
       Rec("P2", "B", "Jan", 1000,  250000,  2000,  2575),
       Rec("P1", "A", "Feb", 1500,   99999,  -500,   -49),
       Rec("P2", "B", "Feb", 2000,  100001,  2000,  1050) >>

Tables ==
    UNION {[1..n -> SampleRecords] : n \in 0..MaxRecords} \cup {EndToEnd}

LoadFailures == {"FileNotFoundError", "BadZipFile"}

Sources ==
    {[ok |-> TRUE, table |-> t] : t \in Tables}
        \cup {[ok |-> FALSE, cause |-> c] : c \in LoadFailures}

\* Code-point order of the dimension values, as sorted() and groupby order them.
KeyOrder == <<"A", "B", "Feb", "Jan", "P1", "P2", "P3">>

-----------------------------------------------------------------------------
(* Sequences *)

Rank(v) == CHOOSE i \in DOMAIN KeyOrder : KeyOrder[i] = v

RECURSIVE SortedKeys(_)
SortedKeys(S) ==
    IF S = {} THEN <<>>
    ELSE LET k == CHOOSE x \in S : \A y \in S : Rank(x) <= Rank(y)
         IN <<k>> \o SortedKeys(S \ {k})

Reverse(s) == [i \in 1..Len(s) |-> s[Len(s) + 1 - i]]

RECURSIVE SumCol(_, _)
SumCol(df, col) ==
    IF df = <<>> THEN 0 ELSE df[1][col] + SumCol(Tail(df), col)

unique(df, col) == {df[i][col] : i \in DOMAIN df}

\* The check inverted: `if not filtered_data.empty`.
empty_inverted(df) == Len(df) # 0

\* The check left out.
empty_never(df) == FALSE

empty(df) == Len(df) = 0

-----------------------------------------------------------------------------
(* logging *)

LogRecord(level, msg, args) == [level |-> level, msg |-> msg, args |-> args]

-----------------------------------------------------------------------------
(* SalesDataLoader *)

read_excel(src) == src

\* A loader that swallows the failure and hands back an empty table.
load_data_fallback(src) ==
    LET r == read_excel(src)
    IN IF r.ok
       THEN [raised |-> None, ret |-> r.table,
             log |-> <<LogRecord("INFO", "Data loaded successfully from %s", <<PATH>>)>>]
       ELSE [raised |-> None, ret |-> <<>>,
             log |-> <<LogRecord("ERROR", "Error loading data: %s", <<r.cause>>)>>]

load_data(src) ==
    LET r == read_excel(src)
    IN IF r.ok
       THEN [raised |-> None, ret |-> r.table,
             log |-> <<LogRecord("INFO", "Data loaded successfully from %s", <<PATH>>)>>]
       ELSE [raised |-> r.cause, ret |-> <<>>,
             log |-> <<LogRecord("ERROR", "Error loading data: %s", <<r.cause>>)>>]

-----------------------------------------------------------------------------
(* SalesFilter.  `df` of the result is the argument as the call leaves it. *)

\* The state predicate applied to `df` instead of to the month-filtered table.
apply_filters_state_overrides(df, state, month) ==
    LET byMonth == IF month # "TODOS"
                   THEN SelectSeq(df, LAMBDA r : r["Mes"] = month)
                   ELSE df
        byState == IF state # "BRASIL"
                   THEN SelectSeq(df, LAMBDA r : r["Estado"] = state)
                   ELSE byMonth
    IN [ret |-> byState, df |-> df,
        log |-> <<LogRecord("INFO", "Filters applied - State: %s | Month: %s",
                            <<state, month>>)>>]

\* A filter without the copy, dropping the rows from `df` itself.
apply_filters_inplace(df, state, month) ==
    LET byMonth == IF month # "TODOS"
                   THEN SelectSeq(df, LAMBDA r : r["Mes"] = month)
                   ELSE df
        byState == IF state # "BRASIL"
                   THEN SelectSeq(byMonth, LAMBDA r : r["Estado"] = state)
                   ELSE byMonth
    IN [ret |-> byState, df |-> byState,
        log |-> <<LogRecord("INFO", "Filters applied - State: %s | Month: %s",
                            <<state, month>>)>>]

apply_filters(df, state, month) ==
    LET copy == df
        byMonth == IF month # "TODOS"
                   THEN SelectSeq(copy, LAMBDA r : r["Mes"] = month)
                   ELSE copy
        byState == IF state # "BRASIL"
                   THEN SelectSeq(byMonth, LAMBDA r : r["Estado"] = state)
                   ELSE byMonth
    IN [ret |-> byState, df |-> df,
        log |-> <<LogRecord("INFO", "Filters applied - State: %s | Month: %s",
                            <<state, month>>)>>]

-----------------------------------------------------------------------------
(* Text *)

Chars(name) ==
    CASE name = "Quantidade Vendida" ->
            <<"Q","u","a","n","t","i","d","a","d","e"," ","V","e","n","d","i","d","a">>
      [] name = "Receita Total (R$)" ->
            <<"R","e","c","e","i","t","a"," ","T","o","t","a","l"," ","(","R","$",")">>
      [] name = "Lucro (R$)" -> <<"L","u","c","r","o"," ","(","R","$",")">>
      [] name = "Margem (%)" -> <<"M","a","r","g","e","m"," ","(","%",")">>
      [] name = "Custo" -> <<"C","u","s","t","o">>
      [] name = "R$ Desconto" -> <<"R","$"," ","D","e","s","c","o","n","t","o">>

\* Python's `sub in s` for strings.
Contains(sub, s) ==
    \E i \in 0..(Len(s) - Len(sub)) :
        \A j \in 1..Len(sub) : s[i + j] = sub[j]

\* str.replace(old, new) for one-character old and new.
replace(s, old, new) == [i \in 1..Len(s) |-> IF s[i] = old THEN new ELSE s[i]]

Digit(d) == CASE d = 0 -> "0" [] d = 1 -> "1" [] d = 2 -> "2" [] d = 3 -> "3"
              [] d = 4 -> "4" [] d = 5 -> "5" [] d = 6 -> "6" [] d = 7 -> "7"
              [] d = 8 -> "8" [] d = 9 -> "9"

\* The decimal digits of a natural number.
RECURSIVE Digits(_)
Digits(n) == IF n < 10 THEN <<Digit(n)>> ELSE Digits(n \div 10) \o <<Digit(n % 10)>>

\* The "," option of the format specification: a comma before every group of
\* three digits, counted from the right.
RECURSIVE Grouped(_)
Grouped(ds) ==
    IF Len(ds) <= 3 THEN ds
    ELSE Grouped(SubSeq(ds, 1, Len(ds) - 3)) \o <<",">> \o SubSeq(ds, Len(ds) - 2, Len(ds))

Abs(x) == IF x < 0 THEN -x ELSE x

\* f"{value:,.2f}" of value = cents / 100.
FormatCommaF2(cents) ==
    (IF cents < 0 THEN <<"-">> ELSE <<>>)
        \o Grouped(Digits(Abs(cents) \div 100))
        \o <<".">>
        \o <<Digit((Abs(cents) % 100) \div 10), Digit(Abs(cents) % 10)>>

\* round(value) of value = cents / 100: to the nearest integer, a tie to the
\* even one.  \div rounds down and % is never negative.
round(cents) ==
    LET q == cents \div 100
        r == cents % 100
    IN IF r < 50 THEN q
       ELSE IF r > 50 THEN q + 1
       ELSE IF q % 2 = 0 THEN q ELSE q + 1

\* f"{n}" of an integer.
FormatInt(n) == (IF n < 0 THEN <<"-">> ELSE <<>>) \o Digits(Abs(n))

BoldOpen == <<"<", "b", ">">>

BoldClose == <<"<", "/", "b", ">">>

\* .replace(",", "X").replace(".", ",").replace("X", ".")
SwapSeparators(s) == replace(replace(replace(s, ",", "X"), ".", ","), "X", ".")

-----------------------------------------------------------------------------
(* SalesGrouper *)

\* The labels without the separator swap, and the quantity cut instead of rounded.
_format_value_unswapped(metric, value) ==
    IF metric = "Margem (%)"
    THEN BoldOpen \o FormatCommaF2(value) \o <<"%">> \o BoldClose
    ELSE IF metric = "Quantidade Vendida"
    THEN BoldOpen \o FormatInt(value \div 100) \o BoldClose
    ELSE IF Contains(<<"R", "$">>, Chars(metric))
    THEN BoldOpen \o <<"R", "$", " ">> \o FormatCommaF2(value) \o BoldClose
    ELSE BoldOpen \o FormatCommaF2(value) \o BoldClose

\* Lines 100-107 of the source are indented one column less than the docstring
\* above them; they are read as the body of _format_value.
_format_value(metric, value) ==
    IF metric = "Margem (%)"
    THEN SwapSeparators(BoldOpen \o FormatCommaF2(value) \o <<"%">> \o BoldClose)
    ELSE IF metric = "Quantidade Vendida"
    THEN BoldOpen \o FormatInt(round(value)) \o BoldClose
    ELSE IF Contains(<<"R", "$">>, Chars(metric))
    THEN SwapSeparators(BoldOpen \o <<"R", "$", " ">> \o FormatCommaF2(value) \o BoldClose)
    ELSE SwapSeparators(BoldOpen \o FormatCommaF2(value) \o BoldClose)

\* agg 'first' in place of 'sum'.
groupby_first(df, metric, dimension) ==
    LET keys == SortedKeys(unique(df, dimension))
    IN [i \in 1..Len(keys) |->
          (dimension :> keys[i])
          @@ (metric :> SelectSeq(df, LAMBDA r : r[dimension] = keys[i])[1][metric])]

\* df.groupby(dimension).agg({metric: 'sum'}).reset_index(): one row per key,
\* the keys in sorted order.
groupby_sum(df, metric, dimension) ==
    LET keys == SortedKeys(unique(df, dimension))
    IN [i \in 1..Len(keys) |->
          (dimension :> keys[i])
          @@ (metric :> SumCol(SelectSeq(df, LAMBDA r : r[dimension] = keys[i]), metric))]

\* A stable ascending insertion of row x into the sorted rows s.
RECURSIVE InsertAsc(_, _, _)
InsertAsc(s, x, by) ==
    IF s = <<>> THEN <<x>>
    ELSE IF s[Len(s)][by] <= x[by] THEN Append(s, x)
    ELSE Append(InsertAsc(SubSeq(s, 1, Len(s) - 1), x, by), s[Len(s)])

RECURSIVE ArgsortAsc(_, _)
ArgsortAsc(s, by) ==
    IF s = <<>> THEN <<>>
    ELSE InsertAsc(ArgsortAsc(SubSeq(s, 1, Len(s) - 1), by), s[Len(s)], by)

\* sort_values without ascending=False.
sort_values_ascending(rows, by) == ArgsortAsc(rows, by)

\* sort_values(by=metric, ascending=False): the rows reversed, sorted
\* ascending, and reversed again.
sort_values(rows, by) == Reverse(ArgsortAsc(Reverse(rows), by))

group_and_format(df, metric, dimension) ==
    LET grouped == groupby_sum(df, metric, dimension)
        sorted == sort_values(grouped, metric)
        labelled == [i \in 1..Len(sorted) |->
                        sorted[i] @@ ("label" :> _format_value(metric, sorted[i][metric]))]
    IN [ret |-> labelled, df |-> df,
        log |-> <<LogRecord("INFO", "Data grouped by %s and metric %s",
                            <<dimension, metric>>)>>]

-----------------------------------------------------------------------------
(* SalesChart *)

RECURSIVE Gcd(_, _)
Gcd(a, b) == IF b = 0 THEN a ELSE Gcd(b, a % b)

\* num / den in lowest terms, den > 0.
Fraction(num, den) ==
    LET g == Gcd(Abs(num), den)
    IN [num |-> num \div g, den |-> den \div g]

Column(df, col) == [i \in 1..Len(df) |-> df[i][col]]

RECURSIVE SumSeq(_)
SumSeq(s) == IF s = <<>> THEN 0 ELSE s[1] + SumSeq(Tail(s))

NaN == [nan |-> TRUE]

\* The sum in place of the mean.
mean_as_sum(s) == IF Len(s) = 0 THEN NaN ELSE Fraction(SumSeq(s), 1)

\* Series.mean(): the sum over the count; NaN for an empty series.
mean(s) == IF Len(s) = 0 THEN NaN ELSE Fraction(SumSeq(s), Len(s))

generate_chart(df, metric, dimension, state, month) ==
    LET avg == mean(Column(df, metric))
        month_title == IF month # "TODOS" THEN month ELSE "Todos os Meses"
        fig == [bar   |-> [x |-> Column(df, dimension),
                           y |-> Column(df, metric),
                           text |-> Column(df, "label")],
                line  |-> [x |-> Column(df, dimension),
                           y |-> [i \in 1..Len(df) |-> avg],
                           name |-> "Media"],
                title |-> <<metric, " por ", dimension, " - ", state, " / ", month_title>>]
    IN [ret |-> fig, df |-> df,
        log |-> <<LogRecord("INFO", "Chart generated successfully", <<>>)>>]

-----------------------------------------------------------------------------
(* DashboardApp.run *)

WARNING == "Nenhum dado disponivel para os filtros selecionados."

Init ==
    /\ source \in Sources
    /\ pc = "start"
    /\ data = <<>>
    /\ selected_state = None
    /\ selected_month = None
    /\ selected_metric = None
    /\ selected_dimension = None
    /\ filtered_data = <<>>
    /\ grouped_data = <<>>
    /\ chart = None
    /\ ui = <<>>
    /\ log = <<>>
    /\ export = "none"
    /\ escaped = None
    /\ bound = {}

\* data = SalesDataLoader.load_data(...): the table, or the failure leaves run.
Load ==
    /\ pc = "start"
    /\ LET r == load_data(source)
       IN /\ log' = log \o r.log
          /\ IF r.raised = None
             THEN /\ data' = r.ret
                  /\ bound' = bound \cup {"data"}
                  /\ pc' = "loaded"
                  /\ escaped' = escaped
             ELSE /\ data' = data
                  /\ bound' = bound
                  /\ pc' = "crashed"
                  /\ escaped' = r.raised
    /\ ui' = Append(ui, "title")
    /\ UNCHANGED <<source, selected_state, selected_month, selected_metric,
                   selected_dimension, filtered_data, grouped_data, chart, export>>

\* The four select boxes: each returns one of its options.
Select ==
    /\ pc = "loaded"
    /\ LET states == <<"BRASIL">> \o SortedKeys(unique(data, "Estado"))
           months == <<"TODOS">> \o SortedKeys(unique(data, "Mes"))
       IN /\ selected_state' \in Range(states)
          /\ selected_month' \in Range(months)
          /\ selected_metric' \in Range(metrics)
          /\ selected_dimension' \in Range(dimensions)
    /\ bound' = bound \cup {"selected_state", "selected_month", "selected_metric",
                             "selected_dimension"}
    /\ pc' = "selected"
    /\ UNCHANGED <<source, data, filtered_data, grouped_data, chart, ui, log,
                   export, escaped>>

Filter ==
    /\ pc = "selected"
    /\ LET r == apply_filters(data, selected_state, selected_month)
       IN /\ filtered_data' = r.ret
          /\ data' = r.df
          /\ log' = log \o r.log
    /\ bound' = bound \cup {"filtered_data"}
    /\ pc' = "filtered"
    /\ UNCHANGED <<source, selected_state, selected_month, selected_metric,
                   selected_dimension, grouped_data, chart, ui, export, escaped>>

\* if filtered_data.empty: st.warning(...); return
EmptyWarn ==
    /\ pc = "filtered"
    /\ empty(filtered_data)
    /\ ui' = Append(ui, WARNING)
    /\ pc' = "done"
    /\ UNCHANGED <<bound, source, data, selected_state, selected_month, selected_metric,
                   selected_dimension, filtered_data, grouped_data, chart, log,
                   export, escaped>>

Group ==
    /\ pc = "filtered"
    /\ ~empty(filtered_data)
    /\ LET r == group_and_format(filtered_data, selected_metric, selected_dimension)
       IN /\ grouped_data' = r.ret
          /\ filtered_data' = r.df
          /\ log' = log \o r.log
    /\ bound' = bound \cup {"grouped_data"}
    /\ pc' = "grouped"
    /\ UNCHANGED <<source, data, selected_state, selected_month, selected_metric,
                   selected_dimension, chart, ui, export, escaped>>

Chart ==
    /\ pc = "grouped"
    /\ LET r == generate_chart(grouped_data, selected_metric, selected_dimension,
                               selected_state, selected_month)
       IN /\ chart' = r.ret
          /\ grouped_data' = r.df
          /\ log' = log \o r.log
    /\ bound' = bound \cup {"chart"}
    /\ pc' = "charted"
    /\ UNCHANGED <<source, data, selected_state, selected_month, selected_metric,
                   selected_dimension, filtered_data, ui, export, escaped>>

\* st.plotly_chart(chart, ...)
Display ==
    /\ pc = "charted"
    /\ ui' = Append(ui, "chart")
    /\ pc' = "displayed"
    /\ UNCHANGED <<bound, source, data, selected_state, selected_month, selected_metric,
                   selected_dimension, filtered_data, grouped_data, chart, log,
                   export, escaped>>

\* chart.write_image(buffer, format='png') returns; the download button follows.
ExportOk ==
    /\ pc = "displayed"
    /\ export' = "ok"
    /\ ui' = Append(ui, "download_button")
    /\ pc' = "done"
    /\ UNCHANGED <<bound, source, data, selected_state, selected_month, selected_metric,
                   selected_dimension, filtered_data, grouped_data, chart, log,
                   escaped>>

\* chart.write_image raises: nothing in run catches it.
ExportFail ==
    /\ pc = "displayed"
    /\ export' = "failed"
    /\ escaped' = "ExportError"
    /\ pc' = "crashed"
    /\ UNCHANGED <<bound, source, data, selected_state, selected_month, selected_metric,
                   selected_dimension, filtered_data, grouped_data, chart, ui, log>>

Next ==
    \/ Load
    \/ Select
    \/ Filter
    \/ EmptyWarn
    \/ Group
    \/ Chart
    \/ Display
    \/ ExportOk
    \/ ExportFail

Spec == Init /\ [][Next]_vars

-----------------------------------------------------------------------------
(* SalesGrouper on its own: a grouper built for any metric name, applied to *)
(* a one-row table holding any value of the set below.                      *)

FormatMetrics == Range(metrics) \cup {"Custo", "R$ Desconto"}

FormatWholes ==
    (0..MaxSmallWhole) \cup {99, 100, 999, 1000, 1234, 9999, 10000, 99999, 100000,
                             999999, 1000000, 1234567, 12345678}

FormatFractions == {0, 1, 5, 9, 10, 49, 50, 51, 60, 90, 99}

FormatValues ==
    {sgn * (w * 100 + f) : sgn \in {-1, 1}, w \in FormatWholes, f \in FormatFractions}

InitFormat ==
    /\ source = None
    /\ pc = "filtered"
    /\ data = <<>>
    /\ selected_state = "BRASIL"
    /\ selected_month = "TODOS"
    /\ selected_metric \in FormatMetrics
    /\ selected_dimension = "Produto"
    /\ \E v \in FormatValues :
          filtered_data = <<("Produto" :> "P1") @@ (selected_metric :> v)>>
    /\ grouped_data = <<>>
    /\ chart = None
    /\ ui = <<>>
    /\ log = <<>>
    /\ export = "none"
    /\ escaped = None
    /\ bound = {"selected_metric", "selected_dimension", "filtered_data"}

NextFormat == Group

SpecFormat == InitFormat /\ [][NextFormat]_vars

-----------------------------------------------------------------------------
(* Properties *)

StateChoices == {"BRASIL", "A", "B", "ZZ"}

MonthChoices == {"TODOS", "Jan", "Feb", "Mar"}

Keeps(r, s, m) ==
    /\ s # "BRASIL" => r["Estado"] = s
    /\ m # "TODOS" => r["Mes"] = m

\* The records of D that satisfy every active predicate, each at the place its
\* index has among the indices kept.
Kept(D, s, m) ==
    LET idx == {i \in DOMAIN D : Keeps(D[i], s, m)}
    IN [k \in 1..Cardinality(idx) |->
          D[CHOOSE i \in idx : Cardinality({j \in idx : j <= i}) = k]]

\* The two predicates applied in the other order.
StateThenMonth(D, s, m) ==
    LET byState == IF s # "BRASIL" THEN SelectSeq(D, LAMBDA r : r["Estado"] = s) ELSE D
    IN IF m # "TODOS" THEN SelectSeq(byState, LAMBDA r : r["Mes"] = m) ELSE byState

\* C1: apply_filters(D, s, m) returns exactly the records of D, in their
\* order and multiplicity, with Estado = s when s is not 'BRASIL' and Mes = m
\* when m is not 'TODOS'; the order of the two predicates does not matter;
\* ('BRASIL', 'TODOS') returns D; for s not 'BRASIL' every record returned has
\* Estado = s.  Stated for every selection, and for the one run made.
C1_FilterExact ==
    /\ "data" \in bound =>
          \A s \in StateChoices, m \in MonthChoices :
             LET out == apply_filters(data, s, m).ret
             IN /\ out = Kept(data, s, m)
                /\ out = StateThenMonth(data, s, m)
                /\ s # "BRASIL" => \A i \in DOMAIN out : out[i]["Estado"] = s
                /\ (s = "BRASIL" /\ m = "TODOS") => out = data
    /\ "filtered_data" \in bound =>
          filtered_data = Kept(data, selected_state, selected_month)

\* C1 witness: both predicates active, a record dropped, a repeated record kept twice.
C1_Witness ==
    /\ pc = "filtered"
    /\ selected_state # "BRASIL"
    /\ selected_month # "TODOS"
    /\ Len(data) = 3
    /\ Len(filtered_data) = 2
    /\ filtered_data[1] = filtered_data[2]

RECURSIVE SumOver(_, _, _)
SumOver(D, idx, col) ==
    IF idx = {} THEN 0
    ELSE LET i == CHOOSE i \in idx : TRUE
         IN D[i][col] + SumOver(D, idx \ {i}, col)

\* C2: group_and_format returns one row per distinct value of the dimension
\* in its input, the row's value being the sum of the metric over the input
\* records with that value; so the row count is the number of distinct values
\* and the values add up to the metric's total over the input.
C2_GroupSums ==
    "grouped_data" \in bound =>
       LET D == filtered_data
           g == grouped_data
           dim == selected_dimension
           met == selected_metric
       IN /\ Len(g) = Cardinality(unique(D, dim))
          /\ \A v \in unique(D, dim) :
                /\ Cardinality({i \in DOMAIN g : g[i][dim] = v}) = 1
                /\ \A i \in DOMAIN g :
                      g[i][dim] = v =>
                         g[i][met] = SumOver(D, {j \in DOMAIN D : D[j][dim] = v}, met)
          /\ SumOver(g, DOMAIN g, met) = SumOver(D, DOMAIN D, met)

\* C2 witness: three records in two groups, one group summing two records.
C2_Witness ==
    /\ pc = "grouped"
    /\ Len(filtered_data) = 3
    /\ Len(grouped_data) = 2
    /\ \E i \in DOMAIN grouped_data, j \in DOMAIN filtered_data :
          /\ grouped_data[i][selected_dimension] = filtered_data[j][selected_dimension]
          /\ grouped_data[i][selected_metric] # filtered_data[j][selected_metric]

Count(seq, x) == Cardinality({i \in DOMAIN seq : seq[i] = x})

Unlabelled(row) == [c \in DOMAIN row \ {"label"} |-> row[c]]

\* C3: the rows of group_and_format are non-increasing in the summed metric,
\* and they are the per-group sums rearranged: none dropped, none repeated.
C3_SortedDescending ==
    "grouped_data" \in bound =>
       LET g == grouped_data
           met == selected_metric
           sums == groupby_sum(filtered_data, met, selected_dimension)
           rows == [i \in DOMAIN g |-> Unlabelled(g[i])]
       IN /\ \A i \in 1..(Len(g) - 1) : g[i][met] >= g[i + 1][met]
          /\ Len(rows) = Len(sums)
          /\ \A i \in DOMAIN sums : Count(rows, sums[i]) = Count(sums, sums[i])

\* C3 witness: three groups of different sums that the sort had to reorder.
C3_Witness ==
    /\ pc = "grouped"
    /\ Len(grouped_data) = 3
    /\ grouped_data[1][selected_metric] > grouped_data[2][selected_metric]
    /\ grouped_data[2][selected_metric] > grouped_data[3][selected_metric]
    /\ Rank(grouped_data[1][selected_dimension]) > Rank(grouped_data[3][selected_dimension])

HasLog(msg) == \E i \in DOMAIN log : log[i].msg = msg

Shown(x) == \E i \in DOMAIN ui : ui[i] = x

\* C4: a selection that matches no record gives an empty table, not an
\* error; run then shows the warning and returns: no grouping, no chart, no
\* display, no export, no exception.
C4_EmptyHalts ==
    /\ "data" \in bound =>
          \A s \in StateChoices, m \in MonthChoices :
             (s # "BRASIL" /\ s \notin unique(data, "Estado"))
                => apply_filters(data, s, m).ret = <<>>
    /\ ("filtered_data" \in bound /\ Len(filtered_data) = 0) =>
          /\ pc \in {"filtered", "done"}
          /\ pc = "done" => Shown(WARNING)
          /\ "grouped_data" \notin bound
          /\ "chart" \notin bound
          /\ ~Shown("chart")
          /\ ~Shown("download_button")
          /\ export = "none"
          /\ escaped = None
          /\ ~HasLog("Data grouped by %s and metric %s")
          /\ ~HasLog("Chart generated successfully")

\* C4 witness: a loaded table with records, a selection none of them matches,
\* the warning shown and run returned.
C4_Witness ==
    /\ pc = "done"
    /\ Len(data) > 0
    /\ Len(filtered_data) = 0
    /\ Shown(WARNING)

\* C5 (as claimed): when the export step fails, run still ends normally with
\* the chart displayed, the failure is logged, and no exception leaves run().
C5_ExportFailureContained ==
    export = "failed" =>
       /\ pc = "done"
       /\ escaped = None
       /\ Shown("chart")
       /\ \E i \in DOMAIN log : log[i].level = "ERROR"

\* C6: a failing load_data logs one error record carrying the cause and
\* raises that same failure, so run stops with nothing filtered, grouped,
\* charted or exported; a successful one logs exactly one INFO record and
\* returns the table read, unmodified.
C6_LoadContract ==
    pc # "start" =>
       IF source.ok
       THEN /\ "data" \in bound
            /\ pc = "loaded" => (data = source.table /\ Len(log) = 1)
            /\ log[1] = LogRecord("INFO", "Data loaded successfully from %s", <<PATH>>)
            /\ Cardinality({i \in DOMAIN log :
                              log[i].msg = "Data loaded successfully from %s"}) = 1
            /\ \A i \in DOMAIN log : log[i].level = "INFO"
            /\ escaped \notin LoadFailures
       ELSE /\ pc = "crashed"
            /\ escaped = source.cause
            /\ log = <<LogRecord("ERROR", "Error loading data: %s", <<source.cause>>)>>
            /\ bound = {}
            /\ export = "none"
            /\ ~Shown("chart")
            /\ ~Shown(WARNING)

\* C6 witness: the file is missing, the error is logged and has left run.
C6_Witness ==
    /\ pc = "crashed"
    /\ ~source.ok
    /\ escaped = "FileNotFoundError"
    /\ Len(log) = 1

\* Group sums 10, 20, 30 as a grouped table.
Sums102030 ==
    << ("Produto" :> "P1") @@ ("Lucro (R$)" :> 1000) @@ ("label" :> <<>>),
       ("Produto" :> "P2") @@ ("Lucro (R$)" :> 2000) @@ ("label" :> <<>>),
       ("Produto" :> "P3") @@ ("Lucro (R$)" :> 3000) @@ ("label" :> <<>>) >>

\* C7: the reference line of generate_chart has one point per grouped row,
\* all at the same y, the sum of the group sums over the number of groups;
\* sums 10, 20, 30 give 20, and the end-to-end table with state A, every
\* month, quantity by month gives (Feb: 15, Jan: 5) and a line at 10.
C7_MeanLine ==
    /\ generate_chart(Sums102030, "Lucro (R$)", "Produto", "BRASIL", "TODOS").ret.line.y
          = <<[num |-> 2000, den |-> 1], [num |-> 2000, den |-> 1],
              [num |-> 2000, den |-> 1]>>
    /\ "chart" \in bound =>
          LET g == grouped_data
              met == selected_metric
              y == chart.line.y
          IN /\ Len(g) >= 1
             /\ Len(y) = Len(g)
             /\ chart.line.x = Column(g, selected_dimension)
             /\ \A i \in DOMAIN y : y[i] = y[1]
             /\ y[1] # NaN
             /\ y[1].den > 0
             /\ y[1].num * Len(g) = y[1].den * SumOver(g, DOMAIN g, met)
             /\ Column(g, met) = <<3000, 2000, 1000>> => y[1] = [num |-> 2000, den |-> 1]
             /\ (/\ data = EndToEnd
                 /\ selected_state = "A"
                 /\ selected_month = "TODOS"
                 /\ met = "Quantidade Vendida"
                 /\ selected_dimension = "Mes")
                   => /\ Column(g, "Mes") = <<"Feb", "Jan">>
                      /\ Column(g, met) = <<1500, 500>>
                      /\ y[1] = [num |-> 1000, den |-> 1]

\* C7 witness: the end-to-end run, charted.
C7_Witness ==
    /\ pc = "charted"
    /\ data = EndToEnd
    /\ selected_state = "A"
    /\ selected_month = "TODOS"
    /\ selected_metric = "Quantidade Vendida"
    /\ selected_dimension = "Mes"
    /\ chart.line.y = <<[num |-> 1000, den |-> 1], [num |-> 1000, den |-> 1]>>

\* C7, second case reached: three groups summing 30, 20, 10 in a run.
C7_Reaches102030 ==
    /\ pc = "charted"
    /\ Column(grouped_data, selected_metric) = <<3000, 2000, 1000>>

\* C8: once loaded, the table held by `data` never changes, whatever
\* apply_filters, group_and_format and generate_chart do; nor does a call
\* change the table it is given: the filtered table stays as filtered, the
\* grouped table as grouped.
C8_DatasetImmutable ==
    [][/\ "data" \in bound => (data' = data /\ data = source.table)
       /\ "filtered_data" \in bound => filtered_data' = filtered_data
       /\ "grouped_data" \in bound => grouped_data' = grouped_data]_vars

\* C8 witness: a whole run, exported, whose filter dropped records, and the
\* loaded table is still the one read.
C8_Witness ==
    /\ pc = "done"
    /\ export = "ok"
    /\ Len(data) = 3
    /\ Len(filtered_data) = 1
    /\ data = source.table

\* Three digits of a number below 1000, zeros kept.
Pad3(k) == <<Digit(k \div 100), Digit((k \div 10) % 10), Digit(k % 10)>>

\* A natural number with "." between its groups of thousands.
RECURSIVE DottedWhole(_)
DottedWhole(n) ==
    IF n < 1000 THEN Digits(n) ELSE DottedWhole(n \div 1000) \o <<".">> \o Pad3(n % 1000)

\* cents / 100 with two decimals, "." for thousands and "," for decimals.
BrazilianNumber(cents) ==
    (IF cents < 0 THEN <<"-">> ELSE <<>>)
        \o DottedWhole(Abs(cents) \div 100)
        \o <<",">>
        \o <<Digit((Abs(cents) % 100) \div 10), Digit(Abs(cents) % 10)>>

CurrencyMetrics == {"Receita Total (R$)", "Lucro (R$)", "R$ Desconto"}

Bold(text) == <<"<", "b", ">">> \o text \o <<"<", "/", "b", ">">>

DigitValue(ch) == CHOOSE d \in 0..9 : Digit(d) = ch

RECURSIVE ParseNat(_)
ParseNat(ds) ==
    IF ds = <<>> THEN 0 ELSE 10 * ParseNat(SubSeq(ds, 1, Len(ds) - 1)) + DigitValue(ds[Len(ds)])

\* The cents a Brazilian-format number reads as.
ParseBrazilian(text) ==
    LET neg == text[1] = "-"
        t == IF neg THEN Tail(text) ELSE text
        plain == SelectSeq(t, LAMBDA ch : ch # ".")
        k == Len(plain)
        cents == 100 * ParseNat(SubSeq(plain, 1, k - 3)) + ParseNat(SubSeq(plain, k - 1, k))
    IN IF neg THEN -cents ELSE cents

ParseInt(text) ==
    IF text[1] = "-" THEN -ParseNat(Tail(text)) ELSE ParseNat(text)

\* The text between <b> and </b>.
Unbold(label) == SubSeq(label, 4, Len(label) - 4)

LabelIsRight(metric, value, label) ==
    LET body == Unbold(label)
    IN /\ label = Bold(body)
       /\ IF metric = "Margem (%)"
          THEN /\ body = BrazilianNumber(value) \o <<"%">>
               /\ ParseBrazilian(SubSeq(body, 1, Len(body) - 1)) = value
          ELSE IF metric = "Quantidade Vendida"
          THEN /\ \E n \in {value \div 100, value \div 100 + 1} :
                     /\ Abs(100 * n - value) <= 50
                     /\ body = (IF n < 0 THEN <<"-">> ELSE <<>>) \o Digits(Abs(n))
               /\ Abs(100 * ParseInt(body) - value) <= 50
          ELSE IF metric \in CurrencyMetrics
          THEN /\ body = <<"R", "$", " ">> \o BrazilianNumber(value)
               /\ ParseBrazilian(SubSeq(body, 4, Len(body))) = value
          ELSE /\ body = BrazilianNumber(value)
               /\ ParseBrazilian(body) = value

\* C9: the label of every grouped row is its summed value formatted for the
\* metric, in bold: 'Margem (%)' two decimals, "." thousands, "," decimal and
\* a trailing "%" (1234.5 -> 1.234,50%); 'Quantidade Vendida' the nearest
\* integer (999.6 -> 1000); a metric whose name contains 'R$' the prefix
\* "R$ " and the same number format (1234.5 -> R$ 1.234,50); any other metric
\* the number format alone.
C9_LabelFormat ==
    /\ _format_value("Margem (%)", 123450)
          = <<"<","b",">","1",".","2","3","4",",","5","0","%","<","/","b",">">>
    /\ _format_value("Quantidade Vendida", 99960)
          = <<"<","b",">","1","0","0","0","<","/","b",">">>
    /\ _format_value("Lucro (R$)", 123450)
          = <<"<","b",">","R","$"," ","1",".","2","3","4",",","5","0","<","/","b",">">>
    /\ "grouped_data" \in bound =>
          \A i \in DOMAIN grouped_data :
             LabelIsRight(selected_metric, grouped_data[i][selected_metric],
                          grouped_data[i]["label"])

\* C9 witness: a grouper for 'Margem (%)' has labelled the sum 1234.5.
C9_Witness ==
    /\ pc = "grouped"
    /\ selected_metric = "Margem (%)"
    /\ grouped_data[1][selected_metric] = 123450
    /\ grouped_data[1]["label"]
          = <<"<","b",">","1",".","2","3","4",",","5","0","%","<","/","b",">">>

====
